---- MODULE Spec2Model ----
(***************************************************************************)
(* Email-triage core: the heuristic classifier / action extractor          *)
(* (gmail_to_agent._simple_simulate_processing), the LLM pipeline          *)
(* (agent_logic.process_email) and the batch loop                          *)
(* (gmail_to_agent.fetch_and_process_gmail).                               *)
(*                                                                         *)
(* Text is a sequence of atoms.  An atom is a chunk of characters that the *)
(* keyword tables never split: every keyword is a sequence of atoms, so    *)
(* Python's substring test is the contiguous-subsequence test below.       *)
(* Python values are tagged records [t, v]; a dict is a function from its  *)
(* keys, and an absent key is a key outside its DOMAIN.                    *)
(***************************************************************************)
EXTENDS Integers, Sequences, FiniteSets, TLC

VARIABLES
    email,      \* the record handed to a processing function
    result,     \* the record it returned
    raised,     \* the exception it raised, "" if none
    op,         \* the function that ran
    calls,      \* the call_gemini requests issued, in order
    server,     \* the mailbox held by Gmail: the messages, in listing order
    status,     \* fetch_and_process_gmail: "idle", "running", "returned", "raised"
    flags,      \* its arguments
    ids,        \* ids
    idx,        \* position of the for loop in ids
    label_id,   \* label_id
    processed,  \* processed
    raw_saved,  \* raw_saved
    labeled,    \* ids of the messages carrying the Processed label
    raw_file,   \* content of data/gmail_raw.json
    inbox,      \* content of data/inbox.json
    emails,     \* st.session_state.emails
    mode,       \* process_mode, the processing mode selected in the sidebar
    clicks      \* number of button clicks handled so far

callVars == <<email, result, raised, op>>
fetchVars == <<server, status, flags, ids, idx, label_id, processed, raw_saved, labeled, raw_file>>
appVars == <<inbox, emails, mode, clicks>>
vars == <<email, result, raised, op, calls, server, status, flags, ids, idx, label_id,
          processed, raw_saved, labeled, raw_file, inbox, emails, mode, clicks>>

(***************************************************************************)
(* Bounds of the explored inputs.                                          *)
(***************************************************************************)
MaxBodyLen == 3
MaxSubjectLen == 1
MaxShapeLen == 1
MaxMessages == 2
MaxClicks == 2

(***************************************************************************)
(* Python values.                                                          *)
(***************************************************************************)
S(s) == [t |-> "str", v |-> s]
Null == [t |-> "null", v |-> <<>>]
Num(digits) == [t |-> "int", v |-> digits]
D(f) == [t |-> "dict", v |-> f]
L(items) == [t |-> "list", v |-> items]

EmptyStr == S(<<>>)
EmptyDict == [k \in {} |-> Null]

IsDict(x) == x.t = "dict"

\* bool(x)
Truthy(x) ==
    CASE x.t = "null" -> FALSE
      [] x.t = "str" -> x.v # <<>>
      [] x.t = "int" -> x.v # <<"0">>
      [] x.t = "dict" -> DOMAIN x.v # {}
      [] x.t = "list" -> x.v # <<>>

\* a or b
Or(a, b) == IF Truthy(a) THEN a ELSE b

\* d.get(k, default) on a dict given as a function
GetD(d, k, default) == IF k \in DOMAIN d THEN d[k] ELSE default

\* d.get(k)
Get(d, k) == GetD(d, k, Null)

\* str(x) for the scalars a body can be
Str(x) ==
    CASE x.t = "str" -> x
      [] x.t = "null" -> S(<<"None">>)
      [] x.t = "int" -> S(x.v)

MergeKeepOld(d, upd) ==
    [k \in DOMAIN d \cup DOMAIN upd |-> IF k \in DOMAIN d THEN d[k] ELSE upd[k]]

\* {**d, **upd}
Merge(d, upd) ==
    [k \in DOMAIN d \cup DOMAIN upd |-> IF k \in DOMAIN upd THEN upd[k] ELSE d[k]]

(***************************************************************************)
(* str methods on atom sequences.                                          *)
(***************************************************************************)
LowerAtom(a) ==
    CASE a = "Please" -> "please"
      [] a = "FREE" -> "free"
      [] a = "Weekly" -> "weekly"
      [] a = "Task" -> "task"
      [] a = "Action" -> "action"
      [] a = "TODO" -> "todo"
      [] a = "Hi" -> "hi"
      [] OTHER -> a

\* s.lower()
Lower(s) == [i \in 1..Len(s) |-> LowerAtom(s[i])]

\* kw in s
Contains(kw, s) ==
    \E i \in 0..(Len(s) - Len(kw)) : SubSeq(s, i + 1, i + Len(kw)) = kw

\* any(kw in s for kw in kws)
AnyIn(kws, s) == \E j \in 1..Len(kws) : Contains(kws[j], s)

WhitespaceAtoms == {" ", "\t"}
LineBreakAtoms == {"\n"}

RECURSIVE LStrip(_)
LStrip(s) ==
    IF s # <<>> /\ Head(s) \in WhitespaceAtoms THEN LStrip(Tail(s)) ELSE s

RECURSIVE RStrip(_)
RStrip(s) ==
    IF s # <<>> /\ s[Len(s)] \in WhitespaceAtoms
    THEN RStrip(SubSeq(s, 1, Len(s) - 1))
    ELSE s

\* s.strip()
Strip(s) == RStrip(LStrip(s))

\* s.splitlines(): a line ends at each line break; a trailing line break
\* opens no further line, and the empty string has no line
RECURSIVE SplitFrom(_, _)
SplitFrom(s, cur) ==
    IF s = <<>>
    THEN IF cur = <<>> THEN <<>> ELSE <<cur>>
    ELSE IF Head(s) \in LineBreakAtoms
         THEN <<cur>> \o SplitFrom(Tail(s), <<>>)
         ELSE SplitFrom(Tail(s), Append(cur, Head(s)))

SplitLines(s) == SplitFrom(s, <<>>)

(***************************************************************************)
(* gmail_to_agent._simple_simulate_processing                              *)
(***************************************************************************)
NewsletterKeywords ==
    << <<"un", "subscribe">>, <<"newsletter">>, <<"subscribe">>, <<"weekly">> >>

SpamKeywords ==
    << <<"free">>, <<"win">>, <<"congratulations">>, <<"offer">> >>

TodoKeywords ==
    << <<"please">>, <<"could", " ", "you">>, <<"can", " ", "you">>,
       <<"please", " ", "review">>, <<"please", " ", "confirm">>,
       <<"action">>, <<"deadline">> >>

ActionKeywords ==
    << <<"please">>, <<"could", " ", "you">>, <<"can", " ", "you">>,
       <<"please", " ", "review">>, <<"please", " ", "confirm">>,
       <<"action", ":">>, <<"todo">> >>

SubjectKeywords ==
    << <<"task">>, <<"request">>, <<"todo">>, <<"please">> >>

\* the text that is lower-cased into body_text
SimBodySource(e) ==
    IF IsDict(Get(e, "body"))
    THEN Or(Get(e["body"].v, "text"), EmptyStr)
    ELSE Str(Or(Get(e, "body"), EmptyStr))

\* body_text
SimBodyText(e) == Lower(SimBodySource(e).v)

\* subj
SimSubj(e) == Lower(Or(Get(e, "subject"), EmptyStr).v)

SimCategorySpamFirst(body_text, subj) ==
    IF \E j \in 1..Len(SpamKeywords) :
           Contains(SpamKeywords[j], body_text) \/ Contains(SpamKeywords[j], subj)
    THEN [category |-> "Spam", reason |-> "Contains spammy keywords"]
    ELSE IF \E j \in 1..Len(NewsletterKeywords) :
                Contains(NewsletterKeywords[j], body_text) \/ Contains(NewsletterKeywords[j], subj)
    THEN [category |-> "Newsletter", reason |-> "Contains newsletter/unsubscribe keywords"]
    ELSE IF AnyIn(TodoKeywords, body_text)
    THEN [category |-> "To-Do", reason |-> "Contains direct request or action language"]
    ELSE [category |-> "Important", reason |-> "Default fallback"]

SimCategoryUnknownFallback(body_text, subj) ==
    IF \E j \in 1..Len(NewsletterKeywords) :
           Contains(NewsletterKeywords[j], body_text) \/ Contains(NewsletterKeywords[j], subj)
    THEN [category |-> "Newsletter", reason |-> "Contains newsletter/unsubscribe keywords"]
    ELSE IF \E j \in 1..Len(SpamKeywords) :
                Contains(SpamKeywords[j], body_text) \/ Contains(SpamKeywords[j], subj)
    THEN [category |-> "Spam", reason |-> "Contains spammy keywords"]
    ELSE IF AnyIn(TodoKeywords, body_text)
    THEN [category |-> "To-Do", reason |-> "Contains direct request or action language"]
    ELSE [category |-> "Unknown", reason |-> "Default fallback"]

SimCategoryTodoInSubject(body_text, subj) ==
    IF \E j \in 1..Len(NewsletterKeywords) :
           Contains(NewsletterKeywords[j], body_text) \/ Contains(NewsletterKeywords[j], subj)
    THEN [category |-> "Newsletter", reason |-> "Contains newsletter/unsubscribe keywords"]
    ELSE IF \E j \in 1..Len(SpamKeywords) :
                Contains(SpamKeywords[j], body_text) \/ Contains(SpamKeywords[j], subj)
    THEN [category |-> "Spam", reason |-> "Contains spammy keywords"]
    ELSE IF \E j \in 1..Len(TodoKeywords) :
                Contains(TodoKeywords[j], body_text) \/ Contains(TodoKeywords[j], subj)
    THEN [category |-> "To-Do", reason |-> "Contains direct request or action language"]
    ELSE [category |-> "Important", reason |-> "Default fallback"]

\* the if / elif chain: category and reason
SimCategory(body_text, subj) ==
    IF \E j \in 1..Len(NewsletterKeywords) :
           Contains(NewsletterKeywords[j], body_text) \/ Contains(NewsletterKeywords[j], subj)
    THEN [category |-> "Newsletter", reason |-> "Contains newsletter/unsubscribe keywords"]
    ELSE IF \E j \in 1..Len(SpamKeywords) :
                Contains(SpamKeywords[j], body_text) \/ Contains(SpamKeywords[j], subj)
    THEN [category |-> "Spam", reason |-> "Contains spammy keywords"]
    ELSE IF AnyIn(TodoKeywords, body_text)
    THEN [category |-> "To-Do", reason |-> "Contains direct request or action language"]
    ELSE [category |-> "Important", reason |-> "Default fallback"]

\* the value whose splitlines() the for loop iterates over
SimScanSource(e) ==
    IF IsDict(Get(e, "body"))
    THEN GetD(Or(Get(e, "body"), D(EmptyDict)).v, "text", EmptyStr)
    ELSE Str(GetD(e, "body", EmptyStr))

\* {"task": task, "deadline": None}
ActionItem(task) == D([k \in {"task", "deadline"} |-> IF k = "task" THEN S(task) ELSE Null])

RECURSIVE SimScanLowerTask(_)
SimScanLowerTask(lines) ==
    IF lines = <<>> THEN <<>>
    ELSE LET line == Head(lines)
             low == Lower(Strip(line))
         IN  (IF AnyIn(ActionKeywords, low) THEN <<ActionItem(low)>> ELSE <<>>)
             \o SimScanLowerTask(Tail(lines))

\* the for loop over the lines
RECURSIVE SimScan(_)
SimScan(lines) ==
    IF lines = <<>> THEN <<>>
    ELSE LET line == Head(lines)
             low == Lower(Strip(line))
         IN  (IF AnyIn(ActionKeywords, low) THEN <<ActionItem(Strip(line))>> ELSE <<>>)
             \o SimScan(Tail(lines))

SimSubjectFallbackAlways(actions, subj) ==
    IF AnyIn(SubjectKeywords, subj)
    THEN Append(actions, ActionItem(subj))
    ELSE actions

\* the subject fallback
SimSubjectFallback(actions, subj) ==
    IF actions = <<>> /\ AnyIn(SubjectKeywords, subj)
    THEN Append(actions, ActionItem(subj))
    ELSE actions

\* actions at the return statement
SimActions(e) ==
    SimSubjectFallback(SimScan(SplitLines(SimScanSource(e).v)), SimSubj(e))

\* the returned dict
SimRecord(e, cat, actions) ==
    Merge(e, [k \in {"category", "category_reason", "action_items"} |->
                 CASE k = "category" -> S(<<cat.category>>)
                   [] k = "category_reason" -> S(<<cat.reason>>)
                   [] k = "action_items" -> L(actions)])

NoRecord == [k \in {} |-> Null]
Returned(rec) == [raised |-> "", value |-> rec]
Raised(exc) == [raised |-> exc, value |-> NoRecord]

\* None.splitlines() raises AttributeError
_simple_simulate_processing(e) ==
    IF SimScanSource(e).t # "str"
    THEN Raised("AttributeError")
    ELSE Returned(SimRecord(e, SimCategory(SimBodyText(e), SimSubj(e)), SimActions(e)))

(***************************************************************************)
(* agent_logic.process_email.  A call_gemini request either raises, or     *)
(* returns text that json.loads rejects, or returns text that parses to    *)
(* the JSON value j.                                                       *)
(***************************************************************************)
LlmRaises == [k |-> "raise", j |-> Null]
LlmNonJson == [k |-> "text", j |-> Null]
LlmJson(j) == [k |-> "json", j |-> j]

\* content
ProcContent(e) ==
    LET body == GetD(e, "body", D(EmptyDict))
    IN  IF IsDict(body) THEN Or(Get(body.v, "text"), EmptyStr) ELSE Str(body)

CatFallback ==
    D([k \in {"category", "reason"} |->
          IF k = "category" THEN S(<<"Unknown">>) ELSE S(<<"Gemini parsing error">>)])

\* cat_json after the first try / except
ProcCatJson(out) == IF out.k = "json" THEN out.j ELSE CatFallback

\* actions after the second try / except
ProcActions(out) == IF out.k = "json" THEN out.j ELSE L(<<>>)

\* the returned dict; cat_json.get raises AttributeError unless cat_json is a dict
ProcReturn(e, cat_json, actions) ==
    IF ~IsDict(cat_json)
    THEN Raised("AttributeError")
    ELSE Returned(Merge(e, [k \in {"category", "category_reason", "action_items"} |->
                     CASE k = "category" -> GetD(cat_json.v, "category", S(<<"Unknown">>))
                       [] k = "category_reason" -> GetD(cat_json.v, "reason", EmptyStr)
                       [] k = "action_items" -> actions]))

process_emailSingleTry(e, catOut, actOut) ==
    IF catOut.k # "json" \/ actOut.k # "json"
    THEN ProcReturn(e, CatFallback, L(<<>>))
    ELSE ProcReturn(e, catOut.j, actOut.j)

process_email(e, catOut, actOut) ==
    ProcReturn(e, ProcCatJson(catOut), ProcActions(actOut))

ProcCallsRetry(e, catOut, actOut) ==
    LET cat == [prompt |-> "categorization_prompt", content |-> ProcContent(e), outcome |-> catOut]
        act == [prompt |-> "action_item_prompt", content |-> ProcContent(e), outcome |-> actOut]
    IN  IF catOut.k = "raise" THEN <<cat, cat, act>> ELSE <<cat, act>>

\* the two call_gemini requests, in the order they are issued
ProcCalls(e, catOut, actOut) ==
    << [prompt |-> "categorization_prompt", content |-> ProcContent(e), outcome |-> catOut],
       [prompt |-> "action_item_prompt", content |-> ProcContent(e), outcome |-> actOut] >>

(***************************************************************************)
(* Inputs.                                                                 *)
(***************************************************************************)
SeqsUpTo(A, n) == UNION {[1..k -> A] : k \in 0..n}

BodyAlphabet == {"Please", "FREE", "Weekly", "action", ":", "todo", " ", "\n"}
SubjectAlphabet == {"Task", "Please", "FREE", "Weekly"}
ShapeAlphabet == {"Please", "Weekly", "\n"}

Rec(id, subject, body) ==
    [k \in {"id", "sender", "subject", "timestamp", "body"} |->
        CASE k = "id" -> S(<<id>>)
          [] k = "sender" -> S(<<"a@b.c">>)
          [] k = "subject" -> subject
          [] k = "timestamp" -> S(<<"Mon, 1 Jan">>)
          [] k = "body" -> body]

\* {"text": text, "html": html}
Body(text, html) == D([k \in {"text", "html"} |-> IF k = "text" THEN text ELSE html])

Html == S(<<"<p>", "Hi", "</p>">>)

Without(d, keys) == [k \in DOMAIN d \ keys |-> d[k]]

Absent == [t |-> "absent", v |-> <<>>]

\* a record whose body carries the text t, structured or as a raw string;
\* subject is a string, None, or Absent for a record without the key
TextEmail(subject, structured, t) ==
    LET body == IF structured THEN Body(S(t), Null) ELSE S(t)
    IN  IF subject = Absent
        THEN Without(Rec("m1", Null, body), {"subject"})
        ELSE Rec("m1", subject, body)

TextSubjects ==
    {S(s) : s \in SeqsUpTo(SubjectAlphabet, MaxSubjectLen)} \cup {Null, Absent}

\* every body shape of the data model
ShapeBodies ==
    LET texts == {S(t) : t \in SeqsUpTo(ShapeAlphabet, MaxShapeLen)}
    IN  {Body(t, h) : t \in texts \cup {Null}, h \in {Null, Html}}
        \cup {D([k \in {"html"} |-> h]) : h \in {Null, Html}}
        \cup {D(EmptyDict)}
        \cup texts
        \cup {Num(<<"7">>)}

PriorFields ==
    [k \in {"category", "category_reason", "action_items"} |->
        CASE k = "category" -> S(<<"Prior">>)
          [] k = "category_reason" -> S(<<"prior reason">>)
          [] k = "action_items" ->
               L(<< D([f \in {"task", "deadline"} |->
                          IF f = "task" THEN S(<<"prior task">>) ELSE S(<<"Friday">>)]) >>)]

CallerFields == [k \in {"threadId"} |-> S(<<"t1">>)]

ShapeEmails ==
    { Merge(Without(Rec("m1", subject, body), drop), extra) :
        subject \in {S(<<"Task">>), S(<<"FREE">>), Null},
        body \in ShapeBodies,
        drop \in {{}, {"body"}, {"subject"}},
        extra \in {EmptyDict, PriorFields, Merge(PriorFields, CallerFields)} }

CatOutcomes ==
    { LlmRaises, LlmNonJson,
      LlmJson(D([k \in {"category", "reason"} |->
                   IF k = "category" THEN S(<<"Spam">>) ELSE S(<<"looks like an ad">>)])),
      LlmJson(D(EmptyDict)),
      LlmJson(L(<<>>)),
      LlmJson(Null) }

ActOutcomes ==
    { LlmRaises, LlmNonJson,
      LlmJson(L(<<>>)),
      LlmJson(L(<< D([f \in {"task", "deadline"} |->
                        IF f = "task" THEN S(<<"send report">>) ELSE S(<<"2025-01-01">>)]) >>)),
      LlmJson(D([k \in {"task"} |-> S(<<"send report">>)])) }

(***************************************************************************)
(* gmail_client.get_message and extract_message_body.  A message held by   *)
(* Gmail is [fetch, id, subject, kind, text, html]: fetch = FALSE when the *)
(* get request answers with an HttpError, subject = Null when the message  *)
(* has no Subject header, and kind tells which parts the payload carries.  *)
(***************************************************************************)
HtmlTags == {"<p>", "</p>"}

\* _html_to_text
RECURSIVE HtmlToText(_)
HtmlToText(h) ==
    IF h = <<>> THEN <<>>
    ELSE IF Head(h) \in HtmlTags THEN HtmlToText(Tail(h))
         ELSE <<Head(h)>> \o HtmlToText(Tail(h))

\* with no text/plain and no text/html part and no direct body data, the final
\* return reads the unbound locals text and safe_html
extract_message_body(m) ==
    CASE m.kind = "direct" -> Returned(Body(S(m.text), Null).v)
      [] m.kind = "plain" -> Returned(Body(S(m.text), Null).v)
      [] m.kind = "plain_html" -> Returned(Body(S(m.text), S(m.html)).v)
      [] m.kind = "html_only" -> Returned(Body(S(HtmlToText(m.html)), S(m.html)).v)
      [] m.kind = "none" -> Raised("UnboundLocalError")

\* the API's message resource
ApiMessage(m) == D([k \in {"id", "threadId"} |-> S(<<m.id>>)])

get_messageStubOnError(m) ==
    IF ~m.fetch THEN Returned([k \in {"id"} |-> S(<<m.id>>)])
    ELSE LET body == extract_message_body(m)
         IN  IF body.raised # "" THEN body
             ELSE Returned(
                 [k \in {"id", "threadId", "subject", "sender", "timestamp", "body", "raw_gmail"} |->
                     CASE k = "id" -> S(<<m.id>>)
                       [] k = "threadId" -> S(<<m.id>>)
                       [] k = "subject" -> (IF m.subject = Null THEN S(<<"(no subject)">>) ELSE m.subject)
                       [] k = "sender" -> S(<<"a@b.c">>)
                       [] k = "timestamp" -> S(<<"Mon, 1 Jan">>)
                       [] k = "body" -> D(body.value)
                       [] k = "raw_gmail" -> ApiMessage(m)])

\* lines 71-99; an HttpError of the API call gives {}
get_message(m) ==
    IF ~m.fetch THEN Returned(EmptyDict)
    ELSE LET body == extract_message_body(m)
         IN  IF body.raised # "" THEN body
             ELSE Returned(
                 [k \in {"id", "threadId", "subject", "sender", "timestamp", "body", "raw_gmail"} |->
                     CASE k = "id" -> S(<<m.id>>)
                       [] k = "threadId" -> S(<<m.id>>)
                       [] k = "subject" -> (IF m.subject = Null THEN S(<<"(no subject)">>) ELSE m.subject)
                       [] k = "sender" -> S(<<"a@b.c">>)
                       [] k = "timestamp" -> S(<<"Mon, 1 Jan">>)
                       [] k = "body" -> D(body.value)
                       [] k = "raw_gmail" -> ApiMessage(m)])

(***************************************************************************)
(* gmail_to_agent.fetch_and_process_gmail                                  *)
(***************************************************************************)
\* email_dict
EmailDict(msg) ==
    [k \in {"id", "sender", "subject", "body", "timestamp", "raw_gmail"} |->
        CASE k = "body" ->
               Body(IF IsDict(Get(msg, "body"))
                    THEN Get(Or(Get(msg, "body"), D(EmptyDict)).v, "text")
                    ELSE Or(Get(msg, "body"), EmptyStr),
                    IF IsDict(Get(msg, "body"))
                    THEN Get(Or(Get(msg, "body"), D(EmptyDict)).v, "html")
                    ELSE Null)
          [] k = "raw_gmail" -> GetD(msg, "raw_gmail", D(EmptyDict))
          [] OTHER -> Get(msg, k)]

\* the except branch around process_email
ProcessingError(email_dict) ==
    Merge(email_dict, [k \in {"category", "category_reason", "action_items"} |->
        CASE k = "category" -> S(<<"Unknown">>)
          [] k = "category_reason" -> S(<<"Processing error: ", "AttributeError">>)
          [] k = "action_items" -> L(<<>>)])

FetchUpdatedAlwaysSimulate(email_dict, f, catOut, actOut) ==
    IF f.skip_processing
    THEN _simple_simulate_processing(email_dict)
    ELSE LET r == process_email(email_dict, catOut, actOut)
         IN  IF r.raised # "" THEN Returned(ProcessingError(email_dict)) ELSE r

\* updated: the branch on skip_processing / simulate_processing
FetchUpdated(email_dict, f, catOut, actOut) ==
    IF f.skip_processing
    THEN IF f.simulate_processing
         THEN _simple_simulate_processing(email_dict)
         ELSE Returned(email_dict)
    ELSE LET r == process_email(email_dict, catOut, actOut)
         IN  IF r.raised # "" THEN Returned(ProcessingError(email_dict)) ELSE r

\* the call_gemini requests one iteration issues
FetchCalls(email_dict, f, catOut, actOut) ==
    IF f.skip_processing THEN <<>> ELSE ProcCalls(email_dict, catOut, actOut)

Min(a, b) == IF a <= b THEN a ELSE b

\* list_message_ids: the ids of the first max_results messages, [] on HttpError
list_message_ids(srv, max_results, ok) ==
    IF ok THEN [i \in 1..Min(max_results, Len(srv)) |-> srv[i].id] ELSE <<>>

\* the message with the given id
ServerMessage(srv, id) == srv[CHOOSE i \in 1..Len(srv) : srv[i].id = id]

(***************************************************************************)
(* Inputs of the batch run.                                                *)
(***************************************************************************)
MessageIds == <<"m1", "m2", "m3", "m4">>

MessagesWithId(id) ==
    { [fetch |-> FALSE, id |-> id, subject |-> Null, kind |-> "none", text |-> <<>>, html |-> <<>>],
      [fetch |-> TRUE, id |-> id, subject |-> S(<<"Task">>), kind |-> "direct",
       text |-> <<"FREE">>, html |-> <<>>],
      [fetch |-> TRUE, id |-> id, subject |-> Null, kind |-> "plain_html",
       text |-> <<"Please", " ", "confirm">>, html |-> <<"<p>", "Please", " ", "confirm", "</p>">>],
      [fetch |-> TRUE, id |-> id, subject |-> S(<<"Weekly">>), kind |-> "html_only",
       text |-> <<>>, html |-> <<"<p>", "Hi", "</p>">>],
      [fetch |-> TRUE, id |-> id, subject |-> S(<<"Hi">>), kind |-> "none",
       text |-> <<>>, html |-> <<>>] }

Mailboxes ==
    UNION { {srv \in [1..n -> UNION {MessagesWithId(MessageIds[i]) : i \in 1..n}] :
                \A i \in 1..n : srv[i].id = MessageIds[i]} : n \in 0..MaxMessages }

FetchFlags ==
    [mark_processed : BOOLEAN, skip_processing : BOOLEAN, simulate_processing : BOOLEAN]

FetchCatOutcomes ==
    { LlmNonJson,
      LlmJson(D([k \in {"category", "reason"} |->
                   IF k = "category" THEN S(<<"Spam">>) ELSE S(<<"looks like an ad">>)])),
      LlmJson(L(<<>>)) }

FetchActOutcomes ==
    { LlmRaises,
      LlmJson(L(<< D([f \in {"task", "deadline"} |->
                        IF f = "task" THEN S(<<"send report">>) ELSE S(<<"2025-01-01">>)]) >>)) }

(***************************************************************************)
(* One call of a processing function on the record `email`.                *)
(***************************************************************************)
FetchIdle ==
    /\ status = "idle"
    /\ flags = [mark_processed |-> FALSE, skip_processing |-> FALSE, simulate_processing |-> FALSE]
    /\ ids = <<>>
    /\ idx = 1
    /\ label_id = ""
    /\ processed = <<>>
    /\ raw_saved = <<>>
    /\ labeled = {}
    /\ raw_file = <<>>

AppIdle ==
    /\ inbox = <<>>
    /\ emails = <<>>
    /\ mode = "LLM (real)"
    /\ clicks = 0

InitCall(e) ==
    /\ AppIdle
    /\ email = e
    /\ result = NoRecord
    /\ raised = ""
    /\ op = "none"
    /\ calls = <<>>
    /\ server = <<>>
    /\ FetchIdle

SimpleSimulateProcessing ==
    /\ op = "none"
    /\ LET r == _simple_simulate_processing(email)
       IN  /\ result' = r.value
           /\ raised' = r.raised
    /\ op' = "simulate"
    /\ UNCHANGED <<email, calls>>
    /\ UNCHANGED fetchVars
    /\ UNCHANGED appVars

ProcessEmail ==
    /\ op = "none"
    /\ \E catOut \in CatOutcomes, actOut \in ActOutcomes :
          LET r == process_email(email, catOut, actOut)
          IN  /\ result' = r.value
              /\ raised' = r.raised
              /\ calls' = ProcCalls(email, catOut, actOut)
    /\ op' = "process_email"
    /\ UNCHANGED email
    /\ UNCHANGED fetchVars
    /\ UNCHANGED appVars

InitText ==
    \E subject \in TextSubjects, structured \in BOOLEAN,
       t \in SeqsUpTo(BodyAlphabet, MaxBodyLen) :
        InitCall(TextEmail(subject, structured, t))
NextText == SimpleSimulateProcessing
SpecText == InitText /\ [][NextText]_vars

InitShape == \E e \in ShapeEmails : InitCall(e)
NextShape == SimpleSimulateProcessing \/ ProcessEmail
SpecShape == InitShape /\ [][NextShape]_vars

(***************************************************************************)
(* A run of fetch_and_process_gmail over the mailbox `server`.             *)
(***************************************************************************)
InitFetch ==
    /\ AppIdle
    /\ email = NoRecord
    /\ result = NoRecord
    /\ raised = ""
    /\ op = "none"
    /\ calls = <<>>
    /\ server \in Mailboxes
    /\ FetchIdle

\* lines 88-93: authenticate, list the ids, load the prompts, get the label
FetchStartWith(f) ==
    /\ status = "idle"
    /\ \E max_messages \in 1..MaxMessages, listed \in BOOLEAN, label \in {"", "Label_1"} :
          /\ flags' = f
          /\ ids' = list_message_ids(server, max_messages, listed)
          /\ label_id' = label
    /\ idx' = 1
    /\ processed' = <<>>
    /\ raw_saved' = <<>>
    /\ status' = "running"
    /\ UNCHANGED <<server, labeled, raw_file>>
    /\ UNCHANGED callVars

FetchStart ==
    /\ \E f \in FetchFlags : FetchStartWith(f)
    /\ UNCHANGED calls
    /\ UNCHANGED appVars

\* one iteration of the for loop, lines 95-139; outs holds the answers the
\* two requests of process_email may get
FetchStepWith(outs) ==
    /\ status = "running"
    /\ idx <= Len(ids)
    /\ LET msg_id == ids[idx]
           msg == get_message(ServerMessage(server, msg_id))
       IN  IF msg.raised # ""
           THEN /\ status' = "raised"
                /\ UNCHANGED <<idx, processed, raw_saved, labeled, calls>>
           ELSE IF msg.value = EmptyDict
           THEN /\ idx' = idx + 1
                /\ UNCHANGED <<status, processed, raw_saved, labeled, calls>>
           ELSE \E out \in outs, labelOk \in BOOLEAN :
                  LET catOut == out[1]
                      actOut == out[2]
                      email_dict == EmailDict(msg.value)
                      updated == FetchUpdated(email_dict, flags, catOut, actOut)
                  IN  /\ calls' = calls \o FetchCalls(email_dict, flags, catOut, actOut)
                      /\ raw_saved' = Append(raw_saved, email_dict)
                      /\ IF updated.raised # ""
                         THEN /\ status' = "raised"
                              /\ UNCHANGED <<idx, processed, labeled>>
                         ELSE /\ processed' = Append(processed, updated.value)
                              /\ labeled' = IF flags.mark_processed /\ label_id # "" /\ labelOk
                                            THEN labeled \cup {msg_id} ELSE labeled
                              /\ idx' = idx + 1
                              /\ UNCHANGED status
    /\ UNCHANGED <<server, flags, ids, label_id, raw_file>>
    /\ UNCHANGED callVars
    /\ UNCHANGED appVars

FetchStep == FetchStepWith(FetchCatOutcomes \X FetchActOutcomes)

\* lines 141-142: save the raw messages (errors swallowed) and return processed
FetchReturn ==
    /\ status = "running"
    /\ idx > Len(ids)
    /\ \E saved \in BOOLEAN : raw_file' = IF saved THEN raw_file \o raw_saved ELSE raw_file
    /\ status' = "returned"
    /\ UNCHANGED <<server, flags, ids, idx, label_id, processed, raw_saved, labeled, calls>>
    /\ UNCHANGED callVars
    /\ UNCHANGED appVars

NextFetch == FetchStart \/ FetchStep \/ FetchReturn
SpecFetch == InitFetch /\ [][NextFetch]_vars

(***************************************************************************)
(* app.py: the session inbox and the sidebar buttons.  Streamlit reruns    *)
(* the script once per click, so one handler runs at a time; the Fetch &   *)
(* Process handler runs fetch_and_process_gmail step by step.  `calls`     *)
(* holds the requests of the handler of the latest click.                  *)
(***************************************************************************)
ProcessModes == {"LLM (real)", "Simulate (heuristic)", "Skip processing"}

ModeFlagsSimulateNotSkipped(m) ==
    [mark_processed |-> TRUE,
     skip_processing |-> m = "Skip processing",
     simulate_processing |-> m = "Simulate (heuristic)"]

\* lines 107-115 and the call at lines 119-125
ModeFlags(m) ==
    [mark_processed |-> TRUE,
     skip_processing |-> m # "LLM (real)",
     simulate_processing |-> m = "Simulate (heuristic)"]

\* e.get("id")
IdOf(e) == Get(e, "id")
IdsOf(recs) == {IdOf(recs[i]) : i \in 1..Len(recs)}

\* [e for e in held if e.get("id") not in processed_ids]
RECURSIVE KeepOthers(_, _)
KeepOthers(held, processed_ids) ==
    IF held = <<>> THEN <<>>
    ELSE (IF IdOf(Head(held)) \in processed_ids THEN <<>> ELSE <<Head(held)>>)
         \o KeepOthers(Tail(held), processed_ids)

MergeFetchedKeepAll(fetched, held) == fetched \o held

\* lines 127-128
MergeFetched(fetched, held) == fetched \o KeepOthers(held, IdsOf(fetched))

\* line 262
ReplaceUpdated(held, updated) ==
    [i \in 1..Len(held) |-> IF IdOf(held[i]) = IdOf(updated) THEN updated ELSE held[i]]

\* the first record with the selected id
SelectedEmail(held, selected_id) ==
    held[CHOOSE i \in 1..Len(held) :
            /\ IdOf(held[i]) = selected_id
            /\ \A j \in 1..(i - 1) : IdOf(held[j]) # selected_id]

\* the loop of lines 69-72 up to record n; outs[i] is what the two requests
\* for record i answer
RECURSIVE ProcessAll(_, _, _)
ProcessAll(held, outs, n) ==
    IF n = 0 THEN [raised |-> "", value |-> <<>>, calls |-> <<>>]
    ELSE LET before == ProcessAll(held, outs, n - 1)
             r == process_email(held[n], outs[n][1], outs[n][2])
         IN  IF before.raised # "" THEN before
             ELSE [raised |-> r.raised,
                   value |-> Append(before.value, r.value),
                   calls |-> before.calls \o ProcCalls(held[n], outs[n][1], outs[n][2])]

GoodCategory ==
    LlmJson(D([k \in {"category", "reason"} |->
                 IF k = "category" THEN S(<<"Spam">>) ELSE S(<<"looks like an ad">>)]))
GoodActions ==
    LlmJson(L(<< D([f \in {"task", "deadline"} |->
                      IF f = "task" THEN S(<<"send report">>) ELSE S(<<"2025-01-01">>)]) >>))

AppOutcomes == { <<GoodCategory, GoodActions>>, <<LlmJson(L(<<>>)), LlmRaises>> }

StoredRec(id) == Rec(id, S(<<"Task">>), Body(S(<<"Please">>), Null))

StoredInboxes == { <<StoredRec("s1")>>, <<StoredRec("m2"), StoredRec("s1")>> }

Message(id, fetch, kind) ==
    CHOOSE m \in MessagesWithId(id) : m.fetch = fetch /\ m.kind = kind

AppMailboxes ==
    { <<Message("m1", TRUE, "plain_html"), Message("m2", TRUE, "direct")>>,
      <<Message("m1", FALSE, "none"), Message("m2", TRUE, "html_only")>>,
      <<Message("m1", TRUE, "direct"), Message("m2", TRUE, "none")>> }

\* lines 29-33: the session starts with the stored inbox
InitApp ==
    /\ inbox \in StoredInboxes
    /\ emails = inbox
    /\ mode = "LLM (real)"
    /\ clicks = 0
    /\ email = NoRecord
    /\ result = NoRecord
    /\ raised = ""
    /\ op = "none"
    /\ calls = <<>>
    /\ server \in AppMailboxes
    /\ FetchIdle

\* lines 62-65
ReloadMockInbox ==
    /\ status = "idle"
    /\ clicks < MaxClicks
    /\ emails' = inbox
    /\ calls' = <<>>
    /\ clicks' = clicks + 1
    /\ UNCHANGED <<inbox, mode>>
    /\ UNCHANGED callVars
    /\ UNCHANGED fetchVars

\* lines 67-75; an exception of process_email ends the script run before
\* the assignment to st.session_state.emails
ProcessAllMockEmails ==
    /\ status = "idle"
    /\ clicks < MaxClicks
    /\ \E outs \in [1..Len(emails) -> AppOutcomes] :
          LET r == ProcessAll(emails, outs, Len(emails))
          IN  /\ emails' = IF r.raised # "" THEN emails ELSE r.value
              /\ calls' = r.calls
    /\ clicks' = clicks + 1
    /\ UNCHANGED <<inbox, mode>>
    /\ UNCHANGED callVars
    /\ UNCHANGED fetchVars

\* lines 258-263
RerunProcessing ==
    /\ status = "idle"
    /\ clicks < MaxClicks
    /\ \E selected_id \in IdsOf(emails), out \in AppOutcomes :
          LET selected_email == SelectedEmail(emails, selected_id)
              r == process_email(selected_email, out[1], out[2])
          IN  /\ emails' = IF r.raised # "" THEN emails ELSE ReplaceUpdated(emails, r.value)
              /\ calls' = ProcCalls(selected_email, out[1], out[2])
    /\ clicks' = clicks + 1
    /\ UNCHANGED <<inbox, mode>>
    /\ UNCHANGED callVars
    /\ UNCHANGED fetchVars

\* lines 105-125: the click starts fetch_and_process_gmail in the selected mode
FetchAndProcessClick ==
    /\ clicks < MaxClicks
    /\ \E m \in ProcessModes :
          /\ mode' = m
          /\ FetchStartWith(ModeFlags(m))
    /\ calls' = <<>>
    /\ clicks' = clicks + 1
    /\ UNCHANGED <<inbox, emails>>

\* one message of the run started by the click
FetchStepInApp == FetchStepWith(AppOutcomes)

\* the handler is over: the locals of the run are gone, the mailbox and the
\* raw-message file stay
FetchEnd ==
    /\ status' = "idle"
    /\ ids' = <<>>
    /\ idx' = 1
    /\ processed' = <<>>
    /\ raw_saved' = <<>>
    /\ UNCHANGED <<server, flags, label_id, labeled, raw_file, calls>>
    /\ UNCHANGED callVars

\* lines 126-130: the run returned, merge its records into the session inbox
FetchMerge ==
    /\ status = "returned"
    /\ emails' = MergeFetched(processed, emails)
    /\ FetchEnd
    /\ UNCHANGED <<inbox, mode, clicks>>

\* lines 131-132: the run raised, the inbox is left as it was
FetchFailed ==
    /\ status = "raised"
    /\ FetchEnd
    /\ UNCHANGED appVars

NextApp ==
    \/ ReloadMockInbox
    \/ ProcessAllMockEmails
    \/ RerunProcessing
    \/ FetchAndProcessClick
    \/ FetchStepInApp
    \/ FetchReturn
    \/ FetchMerge
    \/ FetchFailed
SpecApp == InitApp /\ [][NextApp]_vars

(***************************************************************************)
(* Properties of the heuristic classifier and extractor.                   *)
(***************************************************************************)
\* the body text and the subject of the input record, as given
GivenBody ==
    IF "body" \notin DOMAIN email THEN <<>>
    ELSE IF email["body"].t = "dict"
         THEN IF "text" \in DOMAIN email["body"].v /\ email["body"].v["text"].t = "str"
              THEN email["body"].v["text"].v ELSE <<>>
         ELSE IF email["body"].t = "str" THEN email["body"].v ELSE <<>>

GivenSubject ==
    IF "subject" \in DOMAIN email /\ email["subject"].t = "str"
    THEN email["subject"].v ELSE <<>>

\* kw occurs in s, letter case ignored
OccursCI(kw, s) ==
    \E i \in 1..(Len(s) - Len(kw) + 1) : Lower(SubSeq(s, i, i + Len(kw) - 1)) = kw

NewsletterWords == {<<"un", "subscribe">>, <<"newsletter">>, <<"subscribe">>, <<"weekly">>}
SpamWords == {<<"free">>, <<"win">>, <<"congratulations">>, <<"offer">>}
TodoWords ==
    {<<"please">>, <<"could", " ", "you">>, <<"can", " ", "you">>,
     <<"please", " ", "review">>, <<"please", " ", "confirm">>, <<"action">>, <<"deadline">>}
LineWords ==
    {<<"please">>, <<"could", " ", "you">>, <<"can", " ", "you">>,
     <<"please", " ", "review">>, <<"please", " ", "confirm">>, <<"action", ":">>, <<"todo">>}
SubjectWords == {<<"task">>, <<"request">>, <<"todo">>, <<"please">>}

HasWord(words, s) == \E kw \in words : OccursCI(kw, s)

SimulateReturned == op = "simulate" /\ raised = ""

Category == result["category"].v[1]
Reason == result["category_reason"].v[1]
Items == result["action_items"].v
TaskOf(item) == item.v["task"].v
DeadlineOf(item) == item.v["deadline"]

\* C1: a Newsletter keyword in body or subject gives Newsletter whatever else
\* is present; failing that, a Spam keyword in body or subject gives Spam
\* even when the body holds To-Do keywords.
C1_PriorityOrder ==
    SimulateReturned =>
        LET newsletter == HasWord(NewsletterWords, GivenBody) \/ HasWord(NewsletterWords, GivenSubject)
            spam == HasWord(SpamWords, GivenBody) \/ HasWord(SpamWords, GivenSubject)
        IN  /\ newsletter => Category = "Newsletter"
            /\ (~newsletter /\ spam) => Category = "Spam"

C1_Witness ==
    /\ SimulateReturned
    /\ HasWord(NewsletterWords, GivenSubject)
    /\ ~HasWord(NewsletterWords, GivenBody)
    /\ HasWord(SpamWords, GivenBody)
    /\ HasWord(TodoWords, GivenBody)
    /\ Category = "Newsletter"

RuleTable ==
    { <<"Newsletter", "Contains newsletter/unsubscribe keywords">>,
      <<"Spam", "Contains spammy keywords">>,
      <<"To-Do", "Contains direct request or action language">>,
      <<"Important", "Default fallback">> }

\* C2: every (subject, body text) pair gets one category out of Newsletter,
\* Spam, To-Do, Important, with the reason the rule table pairs with it.
C2_Total ==
    op = "simulate" =>
        /\ raised = ""
        /\ result["category"].t = "str" /\ Len(result["category"].v) = 1
        /\ result["category_reason"].t = "str" /\ Len(result["category_reason"].v) = 1
        /\ <<Category, Reason>> \in RuleTable

C2_Witness ==
    /\ SimulateReturned
    /\ "subject" \notin DOMAIN email
    /\ GivenBody = <<>>
    /\ <<Category, Reason>> = <<"Important", "Default fallback">>

\* C3: with no Newsletter or Spam keyword in body or subject, the category is
\* To-Do exactly when the body holds a To-Do keyword; otherwise it is
\* Important with reason "Default fallback", also when the subject holds one.
C3_TodoBodyOnly ==
    (/\ SimulateReturned
     /\ ~(HasWord(NewsletterWords, GivenBody) \/ HasWord(NewsletterWords, GivenSubject))
     /\ ~(HasWord(SpamWords, GivenBody) \/ HasWord(SpamWords, GivenSubject)))
    => LET todo == HasWord(TodoWords, GivenBody)
       IN  /\ (Category = "To-Do") <=> todo
           /\ ~todo => <<Category, Reason>> = <<"Important", "Default fallback">>

C3_Witness ==
    /\ SimulateReturned
    /\ HasWord(TodoWords, GivenSubject)
    /\ ~HasWord(TodoWords, GivenBody)
    /\ GivenBody # <<>>
    /\ <<Category, Reason>> = <<"Important", "Default fallback">>

\* the lines of the body and the indices of those that hold a line keyword
GivenLines == SplitLines(GivenBody)
MatchingIn(lines) == {i \in 1..Len(lines) : HasWord(LineWords, Strip(lines[i]))}
MatchingLines == MatchingIn(GivenLines)
\* the k-th index of the set M
Nth(M, k) == CHOOSE i \in M : Cardinality({j \in M : j <= i}) = k

\* C4: one item per body line holding a line keyword, in line order,
\* duplicates kept, task = the trimmed line in its original case, deadline null.
C4_LineItems ==
    SimulateReturned =>
        LET lines == GivenLines
            M == MatchingIn(lines)
            items == Items
        IN  M # {} =>
              /\ Len(items) = Cardinality(M)
              /\ \A k \in 1..Len(items) :
                    /\ TaskOf(items[k]) = Strip(lines[Nth(M, k)])
                    /\ DeadlineOf(items[k]) = Null

C4_Witness ==
    /\ SimulateReturned
    /\ Len(Items) = 2
    /\ Items[1] = Items[2]
    /\ TaskOf(Items[1]) = <<"Please">>
    /\ Len(GivenLines) = 2

\* C5: the subject item is appended only when the body gave no item; with no
\* body item and a subject keyword the result has exactly one item.
C5_FallbackOnlyWhenEmpty ==
    SimulateReturned =>
        LET M == MatchingLines
            inSubject == HasWord(SubjectWords, GivenSubject)
        IN  /\ M # {} => Len(Items) = Cardinality(M)
            /\ (M = {} /\ inSubject) => Len(Items) = 1
            /\ (M = {} /\ ~inSubject) => Len(Items) = 0

C5_Witness ==
    /\ SimulateReturned
    /\ HasWord(SubjectWords, GivenSubject)
    /\ Cardinality(MatchingLines) = 1
    /\ Len(Items) = 1
    /\ TaskOf(Items[1]) # Lower(GivenSubject)

\* C6: the subject item carries the subject as given, letter case included,
\* and a null deadline.
C6_FallbackTaskIsSubject ==
    (SimulateReturned /\ MatchingLines = {} /\ HasWord(SubjectWords, GivenSubject)) =>
        /\ Len(Items) = 1
        /\ TaskOf(Items[1]) = GivenSubject
        /\ DeadlineOf(Items[1]) = Null

Derived == {"category", "category_reason", "action_items"}

\* C7: the heuristic never fails: for every record shape it returns a record
\* with category, category_reason and action_items set; a structured body
\* with text null counts as empty text and gives no body-derived item.
C7_NeverFails ==
    op = "simulate" =>
        /\ raised = ""
        /\ Derived \subseteq DOMAIN result
        /\ ("body" \in DOMAIN email /\ email["body"] = Body(Null, Html))
              => Len(Items) <= 1 /\ (~HasWord(SubjectWords, GivenSubject) => Items = <<>>)

\* the normalized text the contract gives for the body of the input record
BodyCovered == "body" \in DOMAIN email /\ email["body"].t \in {"dict", "str", "int"}
ContractText ==
    IF email["body"].t = "dict"
    THEN IF "text" \in DOMAIN email["body"].v /\ email["body"].v["text"].t = "str"
         THEN email["body"].v["text"].v ELSE <<>>
    ELSE email["body"].v

\* C8: normalization gives the text verbatim for a structured body with
\* non-empty text, "" for a structured body without usable text (html or not),
\* the string form for a raw scalar; it is always a string, and classification
\* and extraction of one record work on the same text.
C8_Normalization ==
    /\ op = "process_email" =>
          /\ calls[1].content.t = "str"
          /\ calls[2].content = calls[1].content
          /\ BodyCovered => calls[1].content.v = ContractText
    /\ op = "simulate" =>
          /\ SimBodySource(email).t = "str"
          /\ SimScanSource(email).t = "str"
          /\ SimScanSource(email) = SimBodySource(email)
          /\ BodyCovered => SimBodySource(email).v = ContractText

\* C9: in skip mode every record put in the result is the fetched record
\* itself: same fields, same values, no derived field added.
C9_SkipIdentity ==
    (status # "idle" /\ flags.skip_processing /\ ~flags.simulate_processing) =>
        /\ Len(processed) = Len(raw_saved)
        /\ \A i \in 1..Len(processed) :
              /\ processed[i] = raw_saved[i]
              /\ DOMAIN processed[i] \cap Derived = {}

C9_Witness ==
    /\ status = "returned"
    /\ flags.skip_processing /\ ~flags.simulate_processing
    /\ Len(processed) = 2
    /\ processed[2]["id"] = S(<<"m2">>)
    /\ processed[2]["body"].v["text"] = S(<<"Please", " ", "confirm">>)
    /\ "m2" \in labeled

\* the derived fields carry what the processing produced
DerivedOverwritten ==
    /\ op = "simulate" =>
          /\ <<Category, Reason>> \in RuleTable
          /\ \A k \in 1..Len(Items) : DeadlineOf(Items[k]) = Null
    /\ op = "process_email" =>
          /\ result["category"] =
                IF calls[1].outcome.k = "json" /\ "category" \in DOMAIN calls[1].outcome.j.v
                THEN calls[1].outcome.j.v["category"] ELSE S(<<"Unknown">>)
          /\ result["category_reason"] =
                IF calls[1].outcome.k # "json" THEN S(<<"Gemini parsing error">>)
                ELSE IF "reason" \in DOMAIN calls[1].outcome.j.v
                     THEN calls[1].outcome.j.v["reason"] ELSE S(<<>>)
          /\ result["action_items"] =
                IF calls[2].outcome.k = "json" THEN calls[2].outcome.j ELSE L(<<>>)

FramePreserved ==
    /\ DOMAIN result = DOMAIN email \cup Derived
    /\ \A k \in DOMAIN email \ Derived : result[k] = email[k]
    /\ DerivedOverwritten

\* C10: a processing call that returns leaves the input record as it was and
\* returns it with category, category_reason and action_items set to what the
\* processing produced, every other field present with its value.
C10_Frame ==
    [][(op' \in {"simulate", "process_email"} /\ raised' = "")
          => (email' = email /\ FramePreserved')]_vars

C10_Witness ==
    /\ op = "process_email" /\ raised = ""
    /\ "threadId" \in DOMAIN email /\ result["threadId"] = email["threadId"]
    /\ email["category"] = S(<<"Prior">>) /\ result["category"] = S(<<"Spam">>)
    /\ email["action_items"] # result["action_items"]
    /\ result["body"] = Body(Null, Html)

(***************************************************************************)
(* Properties of the LLM pipeline.                                         *)
(***************************************************************************)
\* a call_gemini request failed: it raised or its text is not JSON
RequestFailed(call) == call.outcome.k \in {"raise", "text"}
\* the categorization request gave a JSON object with category and reason
CategorizationSucceeded(call) ==
    /\ call.outcome.k = "json"
    /\ call.outcome.j.t = "dict"
    /\ {"category", "reason"} \subseteq DOMAIN call.outcome.j.v
\* the action-item request gave a JSON array
ExtractionSucceeded(call) == call.outcome.k = "json" /\ call.outcome.j.t = "list"

\* C11: the two requests fail independently: a failed categorization with a
\* good extraction gives Unknown / "Gemini parsing error" and the extracted
\* items; a failed extraction with a good categorization gives the returned
\* category and reason and no items.
C11_IndependentFailure ==
    op = "process_email" =>
        /\ (RequestFailed(calls[1]) /\ ExtractionSucceeded(calls[2])) =>
              /\ raised = ""
              /\ result["category"] = S(<<"Unknown">>)
              /\ result["category_reason"] = S(<<"Gemini parsing error">>)
              /\ result["action_items"] = calls[2].outcome.j
        /\ (RequestFailed(calls[2]) /\ CategorizationSucceeded(calls[1])) =>
              /\ raised = ""
              /\ result["category"] = calls[1].outcome.j.v["category"]
              /\ result["category_reason"] = calls[1].outcome.j.v["reason"]
              /\ result["action_items"] = L(<<>>)

C11_Witness ==
    /\ op = "process_email"
    /\ calls[1].outcome = LlmNonJson
    /\ ExtractionSucceeded(calls[2]) /\ calls[2].outcome.j.v # <<>>
    /\ result["category"] = S(<<"Unknown">>)
    /\ result["action_items"] = calls[2].outcome.j

\* C12: whatever the two requests do (raise, non-JSON text, JSON of the wrong
\* kind), process_email raises nothing and returns the fallback values:
\* Unknown with a parsing-error reason, no items.
C12_NeverPropagates ==
    op = "process_email" =>
        /\ raised = ""
        /\ ~CategorizationSucceeded(calls[1]) =>
              /\ result["category"] = S(<<"Unknown">>)
              /\ result["category_reason"] = S(<<"Gemini parsing error">>)
        /\ ~ExtractionSucceeded(calls[2]) => result["action_items"] = L(<<>>)

\* C16: one call of process_email issues exactly two requests, categorization
\* first and extraction second, whatever the first does, with no retry.
C16_TwoRequests ==
    op = "process_email" =>
        /\ Len(calls) = 2
        /\ calls[1].prompt = "categorization_prompt"
        /\ calls[2].prompt = "action_item_prompt"

C16_Witness ==
    /\ op = "process_email"
    /\ calls[1].outcome = LlmRaises
    /\ calls[2].outcome = LlmRaises
    /\ Len(calls) = 2
    /\ raised = ""

(***************************************************************************)
(* Properties of the batch run of fetch_and_process_gmail.                 *)
(***************************************************************************)
\* the ids of a list of records, in order
IdSeq(recs) == [i \in 1..Len(recs) |-> IdOf(recs[i]).v[1]]

\* the API answers the get request for this id
FetchSucceeds(id) == ServerMessage(server, id).fetch

\* the message of this id has a text/plain part, a text/html part or direct data
HasBodyPart(id) == ServerMessage(server, id).kind # "none"

RECURSIVE Succeeded(_)
Succeeded(idlist) ==
    IF idlist = <<>> THEN <<>>
    ELSE (IF FetchSucceeds(Head(idlist)) THEN <<Head(idlist)>> ELSE <<>>)
         \o Succeeded(Tail(idlist))

Visited == SubSeq(ids, 1, idx - 1)

\* C14: no message's failure is fatal to the batch: the run never ends with
\* an exception, and when it returns every listed id has been visited.
C14_NoFatalFailure ==
    /\ status # "raised"
    /\ status = "returned" => Visited = ids

\* C15: an id whose fetch yields no record is skipped: no record, no raw
\* message, no request and no label for it, and the run goes on, so the
\* records of the run are those of the visited ids whose fetch succeeded, in
\* the order of the id list; the result has one per such id of the list.
C15_AbsentMeansSkip ==
    status # "idle" =>
        /\ IdSeq(processed) = Succeeded(Visited)
        /\ IdSeq(raw_saved) = Succeeded(Visited)
        /\ \A id \in labeled : FetchSucceeds(id)
        /\ Len(calls) <= 2 * Len(processed)
        /\ status = "raised" => (idx <= Len(ids) /\ FetchSucceeds(ids[idx]))
        /\ status = "returned" => IdSeq(processed) = Succeeded(ids)

C15_Witness ==
    /\ status = "returned"
    /\ ids = <<"m1", "m2">>
    /\ ~FetchSucceeds("m1")
    /\ IdSeq(processed) = <<"m2">>
    /\ labeled = {"m2"}
    /\ Len(calls) = 2

\* C17: a message gets the Processed label only after its record is in the
\* result list, and every labeled message is in the list handed back: a run
\* that ends with an exception hands back nothing, so it has labeled nothing.
C17_LabeledNotLost ==
    /\ \A id \in labeled : \E i \in 1..Len(processed) : IdOf(processed[i]) = S(<<id>>)
    /\ status = "raised" => labeled = {}

(***************************************************************************)
(* Properties of the app's inbox operations.                               *)
(***************************************************************************)
HeuristicReasons == {row[2] : row \in RuleTable}

\* C13: the selected mode fixes the one pipeline of every fetched message:
\* Heuristic and Skip mode issue no request at all; LLM mode issues the two
\* requests of process_email per message and no heuristic verdict; Heuristic
\* mode gives a verdict of the rule table; Skip mode derives nothing.
C13_OnePipelinePerMode ==
    status # "idle" =>
        /\ mode \in {"Simulate (heuristic)", "Skip processing"} => calls = <<>>
        /\ mode = "LLM (real)" =>
              /\ Len(calls) = 2 * Len(processed)
              /\ \A i \in 1..Len(processed) :
                    /\ calls[2 * i - 1].prompt = "categorization_prompt"
                    /\ calls[2 * i].prompt = "action_item_prompt"
                    /\ Derived \subseteq DOMAIN processed[i]
                    /\ processed[i]["category_reason"].v[1] \notin HeuristicReasons
        /\ mode = "Simulate (heuristic)" =>
              \A i \in 1..Len(processed) :
                 /\ Derived \subseteq DOMAIN processed[i]
                 /\ << processed[i]["category"].v[1],
                       processed[i]["category_reason"].v[1] >> \in RuleTable
        /\ mode = "Skip processing" =>
              \A i \in 1..Len(processed) : DOMAIN processed[i] \cap Derived = {}

C13_Witness ==
    /\ status = "returned"
    /\ mode = "Simulate (heuristic)"
    /\ Len(processed) = 2
    /\ calls = <<>>
    /\ processed[2]["category"] = S(<<"Spam">>)
    /\ clicks = 2

UniqueIds(recs) ==
    \A i, j \in 1..Len(recs) : IdOf(recs[i]) = IdOf(recs[j]) => i = j

\* the k-th smallest index of the set K
KthOf(K, k) == CHOOSE i \in K : Cardinality({x \in K : x < i}) = k - 1

\* C18: the session inbox never holds two records of one id; the merge that
\* ends a Fetch & Process click puts the fetched records first, in fetch
\* order, then the records held before whose id is not in the batch, in
\* their order.
C18_UniqueAndOrdered ==
    /\ UniqueIds(emails)
    /\ [][ /\ UniqueIds(emails')
           /\ (status = "returned" /\ status' = "idle") =>
                 LET n == Len(processed)
                     K == {i \in 1..Len(emails) :
                              \A j \in 1..n : IdOf(processed[j]) # IdOf(emails[i])}
                 IN  /\ Len(emails') = n + Cardinality(K)
                     /\ SubSeq(emails', 1, n) = processed
                     /\ \A k \in 1..Cardinality(K) : emails'[n + k] = emails[KthOf(K, k)]
         ]_vars

C18_Witness ==
    /\ status = "idle"
    /\ inbox = <<StoredRec("m2"), StoredRec("s1")>>
    /\ IdSeq(emails) = <<"m1", "m2", "s1">>
    /\ emails[2] # inbox[1]
    /\ emails[3] = inbox[2]

====
